---- MODULE Spec2Model ----
(***************************************************************************)
(* The Big Board (src/app/page.tsx): a shared ledger of peer-to-peer       *)
(* wagers.  The model has the persisted `wagers` table, one browser        *)
(* session of the page (its in-memory `wagers` state, its view state and   *)
(* the handler invocations that are awaiting the backend), and the other   *)
(* sessions of the same page, which reach the table through the same       *)
(* insert/update calls.                                                    *)
(*                                                                         *)
(* Money: the source computes amount * (odds / 100) in floating point.     *)
(* The aggregation operators below return their value in hundredths        *)
(* (value * 100), so that amount * odds / 100 is exact in the integers.    *)
(***************************************************************************)
EXTENDS Integers, Sequences, FiniteSets, Bags, TLC

VARIABLES
    db,                 \* the persisted table `wagers`, in insertion order; id = position
    wagers,             \* useState<Wager[]>: the session's in-memory collection
    calls,              \* the handler invocations awaiting the backend
    resolvingWagerId,   \* useState<string | null>; 0 is null
    editingWager,       \* useState<Wager | null>: the wager's id and parties; id 0 is null
    isCreateModalOpen,  \* useState(false)
    isSubmitting,       \* useState(false)
    formError,          \* useState<string | null>; "" is null
    selectedUserA,      \* useState<string | null>; "" is null
    selectedUserB,      \* useState<string | null>; "" is null
    isDetailPanelOpen   \* useState(false)

\* the detail panel state
detailPanel == <<selectedUserA, selectedUserB, isDetailPanelOpen>>

vars == <<db, wagers, calls, resolvingWagerId, editingWager, isCreateModalOpen,
          isSubmitting, formError, detailPanel>>

(***************************************************************************)
(* Bounds and input sets                                                   *)
(***************************************************************************)
MaxWagers == 1      \* rows of the table, under Spec
MaxInFlight == 2    \* responses the session may be awaiting, under Spec
MaxLedger == 2      \* rows of the table, under SpecLedger

USERS == <<"A", "B", "C">>
Roster == {USERS[i] : i \in 1..Len(USERS)}

\* the text of the form's inputs, as sequences of characters
FormAmounts == {<<>>, <<"0">>, <<"-", "5", "0">>, <<"1", "0", "0">>}
LedgerAmounts == FormAmounts \cup {<<"5", "0">>}
FormOdds == {<<>>, <<"0">>, <<"-", "1", "1", "0">>, <<"1", "5", "0">>, <<"2", "0", "0">>}
FormDescriptions == {<<>>, <<" ">>, <<"b">>, <<" ", "b", " ">>}
FormFroms == {"", "A"}
LedgerFroms == Roster \cup {""}
Results == {"from", "to", "push"}

Hundred == 100

(***************************************************************************)
(* Helpers                                                                 *)
(***************************************************************************)
RECURSIVE SumSeq(_)
SumSeq(s) == IF s = <<>> THEN 0 ELSE Head(s) + SumSeq(Tail(s))

\* Array.prototype.filter
Filter(s, P(_)) == SelectSeq(s, P)

\* Array.prototype.map
Map(s, F(_)) == [i \in 1..Len(s) |-> F(s[i])]

Reverse(s) == [i \in 1..Len(s) |-> s[Len(s) + 1 - i]]

\* String.prototype.trim on a sequence of characters
RECURSIVE TrimLeft(_)
TrimLeft(s) == IF s # <<>> /\ Head(s) = " " THEN TrimLeft(Tail(s)) ELSE s

Trim(s) == Reverse(TrimLeft(Reverse(TrimLeft(s))))

Digits == {"0", "1", "2", "3", "4", "5", "6", "7", "8", "9"}

DigitValue(c) ==
    CASE c = "0" -> 0 [] c = "1" -> 1 [] c = "2" -> 2 [] c = "3" -> 3 [] c = "4" -> 4
      [] c = "5" -> 5 [] c = "6" -> 6 [] c = "7" -> 7 [] c = "8" -> 8 [] c = "9" -> 9

\* the leading digits of s, read as a decimal number after acc
RECURSIVE LeadingDigits(_, _)
LeadingDigits(s, acc) ==
    IF s # <<>> /\ Head(s) \in Digits
    THEN LeadingDigits(Tail(s), 10 * acc + DigitValue(Head(s)))
    ELSE acc

\* parseInt(text, 10) and, on texts without a fraction or exponent,
\* parseFloat(text): leading blanks, one optional sign, the leading digits;
\* NaN when no digit follows
ParseNumber(text) ==
    LET t == TrimLeft(text)
        signed == t # <<>> /\ Head(t) \in {"-", "+"}
        body == IF signed THEN Tail(t) ELSE t
        magnitude == LeadingDigits(body, 0)
    IN IF body = <<>> \/ Head(body) \notin Digits
       THEN [nan |-> TRUE, v |-> 0]
       ELSE [nan |-> FALSE,
             v |-> IF signed /\ Head(t) = "-" THEN -magnitude ELSE magnitude]

\* x > 0 in JavaScript: false for NaN
Positive(x) == ~x.nan /\ x.v > 0

(***************************************************************************)
(* The accounting engine (pure functions of a wager collection)            *)
(***************************************************************************)

\* calculateUserExposure, were it to count the wagers the user only takes
calculateUserExposure_Counterparty(ws, user) ==
    LET placed(w) == (w.from_user = user \/ w.to_user = user) /\ w.status = "open"
        term(w) == w.amount * w.odds
    IN SumSeq(Map(Filter(ws, placed), term))

\* calculateUserExposure, in hundredths
calculateUserExposure(ws, user) ==
    LET placed(w) == w.from_user = user /\ w.status = "open"
        term(w) == w.amount * w.odds
    IN SumSeq(Map(Filter(ws, placed), term))

\* getCellData, were it to take the wagers of both directions
getCellData_BothDirections(ws, fromUser, toUser) ==
    LET hit(w) ==
            /\ \/ w.from_user = fromUser /\ w.to_user = toUser
               \/ w.from_user = toUser /\ w.to_user = fromUser
            /\ w.status = "open"
        userWagers == Filter(ws, hit)
        amt(w) == w.amount
    IN [amount |-> SumSeq(Map(userWagers, amt)), count |-> Len(userWagers)]

\* getCellData
getCellData(ws, fromUser, toUser) ==
    LET hit(w) == w.from_user = fromUser /\ w.to_user = toUser /\ w.status = "open"
        userWagers == Filter(ws, hit)
        amt(w) == w.amount
    IN [amount |-> SumSeq(Map(userWagers, amt)), count |-> Len(userWagers)]

\* x || y on numbers
OrElse(x, y) == IF x # 0 THEN x ELSE y

\* the events of one wager in deriveActivityItems, were the outcome word that
\* of the taker
WagerEvents_TakerWord(wager, now) ==
    (IF wager.created_at # 0
     THEN <<[id |-> <<wager.id, "created">>, type |-> "created", user |-> wager.from_user,
             opponent |-> wager.to_user, result |-> "none",
             timestamp |-> wager.created_at, description |-> wager.description]>>
     ELSE <<>>)
    \o
    (IF wager.status = "resolved" /\ wager.result # "none"
     THEN LET resultText == IF wager.result = "push" THEN "push"
                            ELSE IF wager.result = "to" THEN "win" ELSE "loss"
          IN <<[id |-> <<wager.id, "resolved">>, type |-> "resolved",
                user |-> wager.from_user, opponent |-> wager.to_user,
                result |-> resultText,
                timestamp |-> OrElse(wager.updated_at, OrElse(wager.created_at, now)),
                description |-> wager.description]>>
     ELSE <<>>)

\* the events of one wager in deriveActivityItems, were the resolved event
\* stamped with the current time whatever the wager holds
WagerEvents_StampedNow(wager, now) ==
    (IF wager.created_at # 0
     THEN <<[id |-> <<wager.id, "created">>, type |-> "created", user |-> wager.from_user,
             opponent |-> wager.to_user, result |-> "none",
             timestamp |-> wager.created_at, description |-> wager.description]>>
     ELSE <<>>)
    \o
    (IF wager.status = "resolved" /\ wager.result # "none"
     THEN LET resultText == IF wager.result = "push" THEN "push"
                            ELSE IF wager.result = "from" THEN "win" ELSE "loss"
          IN <<[id |-> <<wager.id, "resolved">>, type |-> "resolved",
                user |-> wager.from_user, opponent |-> wager.to_user,
                result |-> resultText,
                timestamp |-> now,
                description |-> wager.description]>>
     ELSE <<>>)

\* the events one wager adds to `activities` in deriveActivityItems.  A
\* timestamp is the time it denotes, 0 when the field is missing; now is what
\* new Date() reads.
WagerEvents(wager, now) ==
    (IF wager.created_at # 0
     THEN <<[id |-> <<wager.id, "created">>, type |-> "created", user |-> wager.from_user,
             opponent |-> wager.to_user, result |-> "none",
             timestamp |-> wager.created_at, description |-> wager.description]>>
     ELSE <<>>)
    \o
    (IF wager.status = "resolved" /\ wager.result # "none"
     THEN LET resultText == IF wager.result = "push" THEN "push"
                            ELSE IF wager.result = "from" THEN "win" ELSE "loss"
          IN <<[id |-> <<wager.id, "resolved">>, type |-> "resolved",
                user |-> wager.from_user, opponent |-> wager.to_user,
                result |-> resultText,
                timestamp |-> OrElse(wager.updated_at, OrElse(wager.created_at, now)),
                description |-> wager.description]>>
     ELSE <<>>)

\* `activities` after the loop of deriveActivityItems
RECURSIVE ActivityEvents(_, _)
ActivityEvents(ws, now) ==
    IF ws = <<>> THEN <<>>
    ELSE WagerEvents(Head(ws), now) \o ActivityEvents(Tail(ws), now)

\* activities.sort((a, b) => time(b) - time(a)): descending and stable
RECURSIVE InsertByTimestamp(_, _)
InsertByTimestamp(x, s) ==
    IF s = <<>> THEN <<x>>
    ELSE IF x.timestamp > Head(s).timestamp THEN <<x>> \o s
    ELSE <<Head(s)>> \o InsertByTimestamp(x, Tail(s))

RECURSIVE SortByTimestamp(_)
SortByTimestamp(s) ==
    IF s = <<>> THEN <<>>
    ELSE InsertByTimestamp(s[Len(s)], SortByTimestamp(SubSeq(s, 1, Len(s) - 1)))

\* deriveActivityItems, were it to keep the first eight in the order of the loop
deriveActivityItems_Unsorted(ws, now) ==
    LET activities == ActivityEvents(ws, now)
    IN SubSeq(activities, 1, IF Len(activities) < 8 THEN Len(activities) ELSE 8)

\* deriveActivityItems
deriveActivityItems(ws, now) ==
    LET activities == SortByTimestamp(ActivityEvents(ws, now))
    IN SubSeq(activities, 1, IF Len(activities) < 8 THEN Len(activities) ELSE 8)

\* getWagersBetweenUsers, were it to match the pair in the given order only
getWagersBetweenUsers_Directional(ws, user1, user2, openOnly) ==
    LET hit(w) ==
            /\ w.from_user = user1 /\ w.to_user = user2
            /\ (~openOnly \/ w.status = "open")
    IN Filter(ws, hit)

\* getWagersBetweenUsers
getWagersBetweenUsers(ws, user1, user2, openOnly) ==
    LET hit(w) ==
            /\ \/ w.from_user = user1 /\ w.to_user = user2
               \/ w.from_user = user2 /\ w.to_user = user1
            /\ (~openOnly \/ w.status = "open")
    IN Filter(ws, hit)

\* getCellHeatmapClass, were its comparisons strict
getCellHeatmapClass_Strict(amount, thresholds) ==
    IF amount = 0 THEN ""
    ELSE IF amount < thresholds.low THEN "heat-low"
    ELSE IF amount < thresholds.medium THEN "heat-medium"
    ELSE "heat-high"

\* getCellHeatmapClass
getCellHeatmapClass(amount, thresholds) ==
    IF amount = 0 THEN ""
    ELSE IF amount <= thresholds.low THEN "heat-low"
    ELSE IF amount <= thresholds.medium THEN "heat-medium"
    ELSE "heat-high"

\* amounts.sort((a, b) => a - b)
RECURSIVE InsertAscending(_, _)
InsertAscending(x, s) ==
    IF s = <<>> THEN <<x>>
    ELSE IF x <= Head(s) THEN <<x>> \o s
    ELSE <<Head(s)>> \o InsertAscending(x, Tail(s))

RECURSIVE SortAscending(_)
SortAscending(s) ==
    IF s = <<>> THEN <<>> ELSE InsertAscending(Head(s), SortAscending(Tail(s)))

\* a[i] of a JavaScript array of positive numbers, i counted from 0; 0 stands
\* for undefined, which like 0 is falsy
ElementAt(a, i) == IF i < Len(a) THEN a[i + 1] ELSE 0

\* the pairs the two loops over USERS of heatmapThresholds visit, in order
UserPairs ==
    LET n == Len(USERS)
        all == [k \in 1..(n * n) |-> <<USERS[((k - 1) \div n) + 1], USERS[((k - 1) % n) + 1]>>]
    IN SelectSeq(all, LAMBDA c : c[1] # c[2])

\* the amounts heatmapThresholds collects
CellAmounts(ws) ==
    LET amountOf(c) == getCellData(ws, c[1], c[2]).amount
    IN Filter(Map(UserPairs, amountOf), LAMBDA amount : amount > 0)

\* heatmapThresholds, were amounts left in the order of the roster
heatmapThresholds_Unsorted(ws) ==
    LET amounts == CellAmounts(ws)
        lowIndex == Len(amounts) \div 3
        medIndex == (Len(amounts) * 2) \div 3
    IN IF Len(amounts) = 0 THEN [low |-> 0, medium |-> 0]
       ELSE [low |-> OrElse(ElementAt(amounts, lowIndex), ElementAt(amounts, 0)),
             medium |-> OrElse(ElementAt(amounts, medIndex),
                               OrElse(ElementAt(amounts, lowIndex), ElementAt(amounts, 0)))]

\* heatmapThresholds, were both thresholds taken at the middle of the list
heatmapThresholds_Median(ws) ==
    LET amounts == SortAscending(CellAmounts(ws))
        lowIndex == Len(amounts) \div 2
        medIndex == Len(amounts) \div 2
    IN IF Len(amounts) = 0 THEN [low |-> 0, medium |-> 0]
       ELSE [low |-> OrElse(ElementAt(amounts, lowIndex), ElementAt(amounts, 0)),
             medium |-> OrElse(ElementAt(amounts, medIndex),
                               OrElse(ElementAt(amounts, lowIndex), ElementAt(amounts, 0)))]

\* heatmapThresholds, were the indices rounded up
heatmapThresholds_Ceiling(ws) ==
    LET amounts == SortAscending(CellAmounts(ws))
        lowIndex == (Len(amounts) + 2) \div 3
        medIndex == (Len(amounts) * 2 + 2) \div 3
    IN IF Len(amounts) = 0 THEN [low |-> 0, medium |-> 0]
       ELSE [low |-> OrElse(ElementAt(amounts, lowIndex), ElementAt(amounts, 0)),
             medium |-> OrElse(ElementAt(amounts, medIndex),
                               OrElse(ElementAt(amounts, lowIndex), ElementAt(amounts, 0)))]

\* heatmapThresholds
heatmapThresholds(ws) ==
    LET amounts == SortAscending(CellAmounts(ws))
        lowIndex == Len(amounts) \div 3
        medIndex == (Len(amounts) * 2) \div 3
    IN IF Len(amounts) = 0 THEN [low |-> 0, medium |-> 0]
       ELSE [low |-> OrElse(ElementAt(amounts, lowIndex), ElementAt(amounts, 0)),
             medium |-> OrElse(ElementAt(amounts, medIndex),
                               OrElse(ElementAt(amounts, lowIndex), ElementAt(amounts, 0)))]

\* exposures.sort((a, b) => b.exposure - a.exposure): descending and stable
RECURSIVE InsertByExposure(_, _)
InsertByExposure(x, s) ==
    IF s = <<>> THEN <<x>>
    ELSE IF x.exposure > Head(s).exposure THEN <<x>> \o s
    ELSE <<Head(s)>> \o InsertByExposure(x, Tail(s))

RECURSIVE SortByExposure(_)
SortByExposure(s) ==
    IF s = <<>> THEN <<>>
    ELSE InsertByExposure(s[Len(s)], SortByExposure(SubSeq(s, 1, Len(s) - 1)))

\* userExposures; users is the roster, USERS in the source
userExposures(users, ws) ==
    SortByExposure([i \in 1..Len(users) |->
                       [user |-> users[i],
                        exposure |-> calculateUserExposure(ws, users[i])]])

\* maxExposure: userExposures[0]?.exposure || 0
maxExposure(users, ws) ==
    LET ranked == userExposures(users, ws)
    IN IF ranked = <<>> THEN 0 ELSE ranked[1].exposure

\* topExposedUser: userExposures[0]?.user; "" is undefined
topExposedUser(users, ws) ==
    LET ranked == userExposures(users, ws)
    IN IF ranked = <<>> THEN "" ELSE ranked[1].user

\* top3Users, were the list not cut to its first three
top3Users_Uncut(users, ws) ==
    LET nonzero == Filter(userExposures(users, ws), LAMBDA u : u.exposure > 0)
    IN {nonzero[i].user : i \in 1..Len(nonzero)}

\* top3Users
top3Users(users, ws) ==
    LET nonzero == Filter(userExposures(users, ws), LAMBDA u : u.exposure > 0)
        first == SubSeq(nonzero, 1, IF Len(nonzero) < 3 THEN Len(nonzero) ELSE 3)
    IN {first[i].user : i \in 1..Len(first)}

\* getUserBadge: the crown, the warning sign or nothing
getUserBadge(users, ws, user) ==
    IF user = topExposedUser(users, ws) /\ maxExposure(users, ws) > 0 THEN "crown"
    ELSE IF user \in top3Users(users, ws) /\ user # topExposedUser(users, ws) THEN "warning"
    ELSE ""

\* getExposureTier, were a ratio on a boundary to fall in the lower tier
getExposureTier_Inclusive(exposure, max) ==
    IF max = 0 \/ exposure = 0 THEN 0
    ELSE IF exposure * 4 <= max THEN 0
    ELSE IF exposure * 2 <= max THEN 1
    ELSE IF exposure * 4 <= max * 3 THEN 2
    ELSE 3

\* getExposureTier: exposure / max against 0.25, 0.5 and 0.75, in integers
getExposureTier(exposure, max) ==
    IF max = 0 \/ exposure = 0 THEN 0
    ELSE IF exposure * 4 < max THEN 0
    ELSE IF exposure * 2 < max THEN 1
    ELSE IF exposure * 4 < max * 3 THEN 2
    ELSE 3

\* getUserExposureTintClass
getUserExposureTintClass(users, ws, user) ==
    LET exposure == calculateUserExposure(ws, user)
        tier == getExposureTier(exposure, maxExposure(users, ws))
    IN CASE tier = 0 -> ""
         [] tier = 1 -> "exposure-tint-1"
         [] tier = 2 -> "exposure-tint-2"
         [] tier = 3 -> "exposure-tint-3"

\* calculateUserReturns, were it not to filter on the status
calculateUserReturns_OpenToo(ws, user) ==
    LET involved(w) == w.from_user = user \/ w.to_user = user
        term(w) ==
            IF w.result = "push" THEN 0
            ELSE LET toWinAmount == w.amount * w.odds
                 IN IF w.from_user = user
                    THEN (IF w.result = "from" THEN w.amount * Hundred ELSE -toWinAmount)
                    ELSE (IF w.result = "to" THEN toWinAmount ELSE -(w.amount * Hundred))
    IN SumSeq(Map(Filter(ws, involved), term))

\* calculateUserReturns, were the placer to lose only the stake when "to" wins
calculateUserReturns_FromStake(ws, user) ==
    LET involved(w) == w.status = "resolved" /\ (w.from_user = user \/ w.to_user = user)
        term(w) ==
            IF w.result = "push" THEN 0
            ELSE LET toWinAmount == w.amount * w.odds
                 IN IF w.from_user = user
                    THEN (IF w.result = "from" THEN w.amount * Hundred
                                               ELSE -(w.amount * Hundred))
                    ELSE (IF w.result = "to" THEN toWinAmount ELSE -(w.amount * Hundred))
    IN SumSeq(Map(Filter(ws, involved), term))

\* calculateUserReturns, were the placer to win amount * odds / 100 when "from" wins
calculateUserReturns_WinnerGetsOdds(ws, user) ==
    LET involved(w) == w.status = "resolved" /\ (w.from_user = user \/ w.to_user = user)
        term(w) ==
            IF w.result = "push" THEN 0
            ELSE LET toWinAmount == w.amount * w.odds
                 IN IF w.from_user = user
                    THEN (IF w.result = "from" THEN toWinAmount ELSE -toWinAmount)
                    ELSE (IF w.result = "to" THEN toWinAmount ELSE -(w.amount * Hundred))
    IN SumSeq(Map(Filter(ws, involved), term))

\* calculateUserReturns, were the taker to lose amount * odds / 100 when "from" wins
calculateUserReturns_LoserPaysOdds(ws, user) ==
    LET involved(w) == w.status = "resolved" /\ (w.from_user = user \/ w.to_user = user)
        term(w) ==
            IF w.result = "push" THEN 0
            ELSE LET toWinAmount == w.amount * w.odds
                 IN IF w.from_user = user
                    THEN (IF w.result = "from" THEN w.amount * Hundred ELSE -toWinAmount)
                    ELSE (IF w.result = "to" THEN toWinAmount ELSE -toWinAmount)
    IN SumSeq(Map(Filter(ws, involved), term))

\* getOddsMultiplier of the signed variant, were it 1.0 for every odds
getOddsMultiplier_Flat(odds) == Hundred

\* getOddsMultiplier of the signed variant, in hundredths
getOddsMultiplier(odds) ==
    IF odds < 0 THEN Hundred ELSE Hundred + odds

\* calculateUserExposure of the signed variant, in hundredths
calculateUserExposure_Signed(ws, user) ==
    LET placed(w) == w.from_user = user /\ w.status = "open"
        term(w) == w.amount * getOddsMultiplier(w.odds)
    IN SumSeq(Map(Filter(ws, placed), term))

\* calculateUserReturns of the signed variant, in hundredths (the quotient of
\* the negative branch is rounded down)
calculateUserReturns_Signed(ws, user) ==
    LET involved(w) == w.status = "resolved" /\ (w.from_user = user \/ w.to_user = user)
        term(w) ==
            IF w.result = "push" THEN 0
            ELSE LET fromProfit == IF w.odds < 0
                                   THEN (w.amount * Hundred * Hundred) \div (0 - w.odds)
                                   ELSE w.amount * w.odds
                 IN IF w.from_user = user
                    THEN (IF w.result = "from" THEN fromProfit ELSE -(w.amount * Hundred))
                    ELSE (IF w.result = "to" THEN w.amount * Hundred ELSE -fromProfit)
    IN SumSeq(Map(Filter(ws, involved), term))

\* calculateUserReturns, in hundredths
calculateUserReturns(ws, user) ==
    LET involved(w) == w.status = "resolved" /\ (w.from_user = user \/ w.to_user = user)
        term(w) ==
            IF w.result = "push" THEN 0
            ELSE LET toWinAmount == w.amount * w.odds
                 IN IF w.from_user = user
                    THEN (IF w.result = "from" THEN w.amount * Hundred ELSE -toWinAmount)
                    ELSE (IF w.result = "to" THEN toWinAmount ELSE -(w.amount * Hundred))
    IN SumSeq(Map(Filter(ws, involved), term))

\* calculateTotalWagered, in hundredths
calculateTotalWagered(ws, user) ==
    LET involved(w) == w.status = "resolved" /\ (w.from_user = user \/ w.to_user = user)
        term(w) == IF w.from_user = user THEN w.amount * Hundred ELSE w.amount * w.odds
    IN SumSeq(Map(Filter(ws, involved), term))

\* calculateUserRecord, were a push to fall through to the win/loss branches
calculateUserRecord_PushAsLoss(ws, user) ==
    LET involved(w) == w.status = "resolved" /\ (w.from_user = user \/ w.to_user = user)
        resolved == Filter(ws, involved)
        isWin(w) == IF w.from_user = user THEN w.result = "from" ELSE w.result = "to"
        isLoss(w) == IF w.from_user = user THEN w.result # "from" ELSE w.result # "to"
    IN [wins |-> Len(Filter(resolved, isWin)),
        losses |-> Len(Filter(resolved, isLoss)),
        pushes |-> 0]

\* calculateUserRecord, were it not to filter on the status
calculateUserRecord_CountsOpen(ws, user) ==
    LET involved(w) == w.from_user = user \/ w.to_user = user
        resolved == Filter(ws, involved)
        isPush(w) == w.result = "push"
        isWin(w) == w.result # "push" /\
                    (IF w.from_user = user THEN w.result = "from" ELSE w.result = "to")
        isLoss(w) == w.result # "push" /\
                     (IF w.from_user = user THEN w.result # "from" ELSE w.result # "to")
    IN [wins |-> Len(Filter(resolved, isWin)),
        losses |-> Len(Filter(resolved, isLoss)),
        pushes |-> Len(Filter(resolved, isPush))]

\* calculateUserRecord
calculateUserRecord(ws, user) ==
    LET involved(w) == w.status = "resolved" /\ (w.from_user = user \/ w.to_user = user)
        resolved == Filter(ws, involved)
        isPush(w) == w.result = "push"
        isWin(w) == w.result # "push" /\
                    (IF w.from_user = user THEN w.result = "from" ELSE w.result = "to")
        isLoss(w) == w.result # "push" /\
                     (IF w.from_user = user THEN w.result # "from" ELSE w.result # "to")
    IN [wins |-> Len(Filter(resolved, isWin)),
        losses |-> Len(Filter(resolved, isLoss)),
        pushes |-> Len(Filter(resolved, isPush))]

(***************************************************************************)
(* The persistence collaborator: the table and the calls made on it        *)
(***************************************************************************)

\* .insert(newWagers): the table assigns the id; result defaults to null
InsertRows(table, rows) ==
    table \o [i \in 1..Len(rows) |->
                [id |-> Len(table) + i,
                 from_user |-> rows[i].from_user,
                 to_user |-> rows[i].to_user,
                 amount |-> rows[i].amount,
                 odds |-> rows[i].odds,
                 description |-> rows[i].description,
                 status |-> rows[i].status,
                 result |-> "none"]]

\* the update of an edit, were it to send the status of the form's new wagers too
UpdateFields_Reopens(table, id, description, amount, odds) ==
    [i \in 1..Len(table) |->
        IF table[i].id = id
        THEN [table[i] EXCEPT !.description = description, !.amount = amount,
                              !.odds = odds, !.status = "open"]
        ELSE table[i]]

\* .update({description, amount, odds}).eq('id', id)
UpdateFields(table, id, description, amount, odds) ==
    [i \in 1..Len(table) |->
        IF table[i].id = id
        THEN [table[i] EXCEPT !.description = description, !.amount = amount, !.odds = odds]
        ELSE table[i]]

\* the update of handleResolveWager, were it without .eq('id', wagerId)
UpdateResult_AllRows(table, id, result) ==
    [i \in 1..Len(table) |-> [table[i] EXCEPT !.status = "resolved", !.result = result]]

\* the update of a resolve, were it to leave the result out
UpdateResult_StatusOnly(table, id, result) ==
    [i \in 1..Len(table) |->
        IF table[i].id = id THEN [table[i] EXCEPT !.status = "resolved"] ELSE table[i]]

\* .update({status: 'resolved', result}).eq('id', wagerId)
UpdateResult(table, id, result) ==
    [i \in 1..Len(table) |->
        IF table[i].id = id
        THEN [table[i] EXCEPT !.status = "resolved", !.result = result]
        ELSE table[i]]

\* .select('*').order('created_at', {ascending: false}): newest first
SelectAll(table) == Reverse(table)

(***************************************************************************)
(* Handler invocations awaiting the backend.  The backend serves a request *)
(* at some moment between its sending and the arrival of the response; the *)
(* model takes the moment of sending (the handlers are started at          *)
(* arbitrary moments), so what is in flight is a response:                 *)
(*   op:   "fetch" | "insert" | "update" | "resolve"                       *)
(*   st:   "ok" | "err", the `error` of the awaited result                 *)
(*   k:    the handler that awaits the fetch: "none", "submit", "resolve"  *)
(*   data: the rows a fetch returns                                        *)
(* Responses arrive in any order, so `calls` is a bag.                     *)
(***************************************************************************)
Response(op, st, k, data) == [op |-> op, st |-> st, k |-> k, data |-> data]

Sent(c) == calls (+) SetToBag({c})

Handled(c) == calls (-) SetToBag({c})

InFlight == BagCardinality(calls)

\* the awaited select of fetchWagers: the rows as they are now, or an error
Select(k) == {Response("fetch", "ok", k, SelectAll(db)), Response("fetch", "err", k, <<>>)}

\* the roster users of a set, in roster order (formToUsers)
ToList(S) == SelectSeq(USERS, LAMBDA u : u \in S)

NoWager == [id |-> 0, from_user |-> "", to_user |-> ""]

\* the page is mounted on an empty table and fetches
Init ==
    /\ db = <<>>
    /\ wagers = <<>>
    /\ calls \in {SetToBag({c}) : c \in {Response("fetch", "ok", "none", <<>>),
                                         Response("fetch", "err", "none", <<>>)}}
    /\ resolvingWagerId = 0
    /\ editingWager = NoWager
    /\ isCreateModalOpen = FALSE
    /\ isSubmitting = FALSE
    /\ formError = ""
    /\ selectedUserA = ""
    /\ selectedUserB = ""
    /\ isDetailPanelOpen = FALSE

(***************************************************************************)
(* fetchWagers                                                             *)
(***************************************************************************)
\* Refresh button, or the auth listener: fetchWagers up to its await
HandleReset ==
    /\ InFlight < MaxInFlight
    /\ \E c \in Select("none") : calls' = Sent(c)
    /\ UNCHANGED <<detailPanel, db, wagers, resolvingWagerId, editingWager, isCreateModalOpen,
                   isSubmitting, formError>>

\* handleCloseCreateModal, as a state change
CloseCreateModal ==
    /\ isCreateModalOpen' = FALSE
    /\ editingWager' = NoWager
    /\ formError' = ""

\* fetchWagers, were it to store `data || []` whatever the error
FetchWagersReturn_ClearsOnError ==
    \E c \in BagToSet(calls) :
        /\ c.op = "fetch"
        /\ wagers' = c.data
        /\ calls' = Handled(c)
        /\ UNCHANGED <<db, detailPanel>>
        /\ \/ /\ c.k = "none"
              /\ UNCHANGED <<resolvingWagerId, editingWager, isCreateModalOpen,
                             isSubmitting, formError>>
           \/ /\ c.k = "resolve"
              /\ resolvingWagerId' = 0
              /\ UNCHANGED <<editingWager, isCreateModalOpen, isSubmitting, formError>>
           \/ /\ c.k = "submit"
              /\ isSubmitting' = FALSE
              /\ isCreateModalOpen' = FALSE
              /\ editingWager' = NoWager
              /\ formError' = ""
              /\ resolvingWagerId' = resolvingWagerId

\* fetchWagers resumes after its await, then the handler that awaited it
FetchWagersReturn ==
    \E c \in BagToSet(calls) :
        /\ c.op = "fetch"
        /\ wagers' = IF c.st = "ok" THEN c.data ELSE wagers
        /\ calls' = Handled(c)
        /\ UNCHANGED <<db, detailPanel>>
        /\ \/ /\ c.k = "none"
              /\ UNCHANGED <<resolvingWagerId, editingWager, isCreateModalOpen,
                             isSubmitting, formError>>
           \/ /\ c.k = "resolve"
              /\ resolvingWagerId' = 0
              /\ UNCHANGED <<editingWager, isCreateModalOpen, isSubmitting, formError>>
           \/ /\ c.k = "submit"
              /\ isSubmitting' = FALSE
              /\ CloseCreateModal
              /\ resolvingWagerId' = resolvingWagerId

(***************************************************************************)
(* Detail panel.  Its overlay covers the grid, and the overlay of the      *)
(* create / edit modal, rendered after it, covers the panel.               *)
(***************************************************************************)
\* the grid cells with an onClick: the off-diagonal ones
Cells == {c \in Roster \X Roster : c[1] # c[2]}

\* selectedWagers, were it to take getWagersBetweenUsers(selectedUserA, selectedUserB)
selectedWagers_Between ==
    IF selectedUserA # "" /\ selectedUserB # ""
    THEN Filter(wagers, LAMBDA w :
                   \/ w.from_user = selectedUserA /\ w.to_user = selectedUserB
                   \/ w.from_user = selectedUserB /\ w.to_user = selectedUserA)
    ELSE <<>>

\* selectedWagers
selectedWagers ==
    IF selectedUserA # "" /\ selectedUserB # ""
    THEN Filter(wagers, LAMBDA w : w.from_user = selectedUserA /\ w.to_user = selectedUserB)
    ELSE <<>>

\* the wagers the page lists: the panel is rendered only while it is open
ListedWagers ==
    IF isDetailPanelOpen /\ selectedUserA # "" /\ selectedUserB # ""
    THEN selectedWagers
    ELSE <<>>

HandleCellClick ==
    \E c \in Cells :
        /\ ~isDetailPanelOpen
        /\ ~isCreateModalOpen
        /\ selectedUserA' = c[1]
        /\ selectedUserB' = c[2]
        /\ isDetailPanelOpen' = TRUE
        /\ resolvingWagerId' = 0
        /\ UNCHANGED <<db, wagers, calls, editingWager, isCreateModalOpen, isSubmitting,
                       formError>>

\* the close button of the panel, or a click on its overlay
HandleCloseDetailPanel ==
    /\ isDetailPanelOpen
    /\ ~isCreateModalOpen
    /\ isDetailPanelOpen' = FALSE
    /\ selectedUserA' = ""
    /\ selectedUserB' = ""
    /\ resolvingWagerId' = 0
    /\ UNCHANGED <<db, wagers, calls, editingWager, isCreateModalOpen, isSubmitting,
                   formError>>

(***************************************************************************)
(* Create / edit modal and handleSubmit                                    *)
(***************************************************************************)
\* "+ Create Wager" in the nav bar
HandleOpenCreateModal ==
    /\ ~isCreateModalOpen
    /\ isCreateModalOpen' = TRUE
    /\ UNCHANGED <<detailPanel, db, wagers, calls, resolvingWagerId, editingWager, isSubmitting,
                   formError>>

HandleCloseCreateModal ==
    /\ isCreateModalOpen
    /\ CloseCreateModal
    /\ UNCHANGED <<detailPanel, db, wagers, calls, resolvingWagerId, isSubmitting>>

\* the action buttons of a wager listed in the detail panel are rendered only
\* while it is open in the in-memory collection and its resolve panel is not
\* showing
ShowsWagerActions(w) == w.status = "open" /\ resolvingWagerId # w.id

\* what the page reads of editingWager: its id, and its parties through the
\* form fields handleEditWager sets from it
Editing(w) == [id |-> w.id, from_user |-> w.from_user, to_user |-> w.to_user]

\* Edit button of a wager listed in the detail panel (the modal, once open,
\* covers the panel)
HandleEditWager ==
    \E i \in 1..Len(ListedWagers) :
        /\ ~isCreateModalOpen
        /\ ShowsWagerActions(ListedWagers[i])
        /\ editingWager' = Editing(ListedWagers[i])
        /\ formError' = ""
        /\ isCreateModalOpen' = TRUE
        /\ UNCHANGED <<detailPanel, db, wagers, calls, resolvingWagerId, isSubmitting>>

\* the condition of handleSubmit, were it not to look at the odds
SubmitValid_AnyOdds(from, tos, amount, odds, description) ==
    /\ from # ""
    /\ Len(SelectSeq(tos, LAMBDA u : u # from)) > 0
    /\ Positive(amount)
    /\ Trim(description) # <<>>

\* the condition of handleSubmit
SubmitValid(from, tos, amount, odds, description) ==
    /\ from # ""
    /\ Len(SelectSeq(tos, LAMBDA u : u # from)) > 0
    /\ Positive(amount)
    /\ Positive(odds)
    /\ Trim(description) # <<>>

\* newWagers of handleSubmit, were it to map formToUsers instead of validToUsers
NewWagers_SelfWager(from, tos, amount, odds, description) ==
    [i \in 1..Len(tos) |->
        [from_user |-> from,
         to_user |-> tos[i],
         amount |-> amount.v,
         odds |-> odds.v,
         description |-> Trim(description),
         status |-> "open"]]

\* newWagers of handleSubmit
NewWagers(from, tos, amount, odds, description) ==
    LET validToUsers == SelectSeq(tos, LAMBDA u : u # from)
    IN [i \in 1..Len(validToUsers) |->
           [from_user |-> from,
            to_user |-> validToUsers[i],
            amount |-> amount.v,
            odds |-> odds.v,
            description |-> Trim(description),
            status |-> "open"]]

\* what the form can hold when it is submitted: formFrom, formToUsers,
\* formAmount, formOdds, formDescription
FormSet(froms, amounts) ==
    [from : froms, to : {ToList(S) : S \in SUBSET Roster}, amount : amounts,
     odds : FormOdds, description : FormDescriptions]

FormValid(f) ==
    SubmitValid(f.from, f.to, ParseNumber(f.amount), ParseNumber(f.odds), f.description)

\* the rows handleSubmit inserts for a valid form
FormWagers(f) ==
    NewWagers(f.from, f.to, ParseNumber(f.amount), ParseNumber(f.odds), f.description)

\* the update handleSubmit sends for a valid form
FormUpdate(f) ==
    [description |-> Trim(f.description), amount |-> ParseNumber(f.amount).v,
     odds |-> ParseNumber(f.odds).v]

\* in the edit modal formFrom and formToUsers hold the wager's two parties
\* (handleEditWager) and no control changes them, so there the condition of
\* handleSubmit is that of amount, odds and description
EditValid(f) ==
    Positive(ParseNumber(f.amount)) /\ Positive(ParseNumber(f.odds))
        /\ Trim(f.description) # <<>>

Forms == FormSet(FormFroms, FormAmounts)

ValidForms == {f \in Forms : FormValid(f)}

InvalidForms == Forms \ ValidForms

CreatePayloads == {FormWagers(f) : f \in ValidForms}

EditPayloads == {FormUpdate(f) : f \in {g \in Forms : EditValid(g)}}

EditInvalid == \E f \in Forms : ~EditValid(f)

LedgerForms == FormSet(LedgerFroms, LedgerAmounts)

LedgerCreatePayloads == {FormWagers(f) : f \in {g \in LedgerForms : FormValid(g)}}

LedgerEditPayloads == {FormUpdate(f) : f \in {g \in LedgerForms : EditValid(g)}}

\* handleSubmit up to its first await (the submit button is disabled while
\* isSubmitting)
HandleSubmit ==
    /\ isCreateModalOpen
    /\ ~isSubmitting
    /\ \/ /\ editingWager # NoWager
          /\ InFlight < MaxInFlight
          /\ \E p \in EditPayloads :
                \/ /\ db' = UpdateFields(db, editingWager.id, p.description, p.amount,
                                         p.odds)
                   /\ calls' = Sent(Response("update", "ok", "submit", <<>>))
                \/ /\ db' = db
                   /\ calls' = Sent(Response("update", "err", "submit", <<>>))
          /\ isSubmitting' = TRUE
          /\ formError' = ""
       \/ /\ editingWager = NoWager
          /\ InFlight < MaxInFlight
          /\ \E newWagers \in CreatePayloads :
                /\ Len(db) + Len(newWagers) <= MaxWagers
                /\ \/ /\ db' = InsertRows(db, newWagers)
                      /\ calls' = Sent(Response("insert", "ok", "submit", <<>>))
                   \/ /\ db' = db
                      /\ calls' = Sent(Response("insert", "err", "submit", <<>>))
          /\ isSubmitting' = TRUE
          /\ formError' = ""
       \/ /\ IF editingWager # NoWager THEN EditInvalid ELSE InvalidForms # {}
          /\ formError' = "Please fill in all fields"
          /\ isSubmitting' = FALSE
          /\ UNCHANGED <<db, calls>>
    /\ UNCHANGED <<detailPanel, wagers, resolvingWagerId, editingWager, isCreateModalOpen>>

\* handleSubmit resumes after the insert or update: on error it reports, on
\* success it awaits fetchWagers
HandleSubmitReturn ==
    \E c \in BagToSet(calls) :
        /\ c.op \in {"insert", "update"}
        /\ \/ /\ c.st = "err"
              /\ formError' = (IF c.op = "update" THEN "Failed to update wager"
                                                  ELSE "Failed to create wager")
              /\ isSubmitting' = FALSE
              /\ calls' = Handled(c)
           \/ /\ c.st = "ok"
              /\ \E f \in Select("submit") : calls' = Handled(c) (+) SetToBag({f})
              /\ UNCHANGED <<formError, isSubmitting>>
        /\ UNCHANGED <<detailPanel, db, wagers, resolvingWagerId, editingWager, isCreateModalOpen>>

(***************************************************************************)
(* Resolving                                                               *)
(***************************************************************************)
\* Resolve button of a listed wager
HandleStartResolve ==
    \E i \in 1..Len(ListedWagers) :
        /\ ~isCreateModalOpen
        /\ ShowsWagerActions(ListedWagers[i])
        /\ resolvingWagerId' = ListedWagers[i].id
        /\ UNCHANGED <<detailPanel, db, wagers, calls, editingWager, isCreateModalOpen, isSubmitting,
                       formError>>

\* Cancel in the resolve panel
HandleCancelResolve ==
    /\ ~isCreateModalOpen
    /\ \E i \in 1..Len(ListedWagers) : ListedWagers[i].id = resolvingWagerId
    /\ resolvingWagerId' = 0
    /\ UNCHANGED <<detailPanel, db, wagers, calls, editingWager, isCreateModalOpen, isSubmitting,
                   formError>>

\* an outcome button of the resolve panel, which is rendered for the listed
\* wager whose id is resolvingWagerId: handleResolveWager up to its await
HandleResolveWager ==
    \E i \in 1..Len(ListedWagers), result \in Results :
        /\ ~isCreateModalOpen
        /\ resolvingWagerId = ListedWagers[i].id
        /\ InFlight < MaxInFlight
        /\ \/ /\ db' = UpdateResult(db, ListedWagers[i].id, result)
              /\ calls' = Sent(Response("resolve", "ok", "resolve", <<>>))
           \/ /\ db' = db
              /\ calls' = Sent(Response("resolve", "err", "resolve", <<>>))
        /\ UNCHANGED <<detailPanel, wagers, resolvingWagerId, editingWager, isCreateModalOpen,
                       isSubmitting, formError>>

\* handleResolveWager resumes after the update: on error it only logs
HandleResolveReturn ==
    \E c \in BagToSet(calls) :
        /\ c.op = "resolve"
        /\ \/ /\ c.st = "err"
              /\ calls' = Handled(c)
              /\ resolvingWagerId' = 0
           \/ /\ c.st = "ok"
              /\ \E f \in Select("resolve") : calls' = Handled(c) (+) SetToBag({f})
              /\ resolvingWagerId' = resolvingWagerId
        /\ UNCHANGED <<detailPanel, db, wagers, editingWager, isCreateModalOpen, isSubmitting, formError>>

(***************************************************************************)
(* Other sessions of the page.  A session that fetched a wager while it    *)
(* was open keeps showing its Edit and Resolve buttons until it fetches    *)
(* again, so it can send either update for any wager of the table; only    *)
(* the effect of its calls on the table is modelled.                       *)
(***************************************************************************)
OtherSessionCreate ==
    \E rows \in CreatePayloads :
        /\ Len(db) + Len(rows) <= MaxWagers
        /\ db' = InsertRows(db, rows)
        /\ UNCHANGED <<detailPanel, wagers, calls, resolvingWagerId, editingWager, isCreateModalOpen,
                       isSubmitting, formError>>

OtherSessionEdit ==
    \E id \in 1..Len(db), p \in EditPayloads :
        /\ db' = UpdateFields(db, id, p.description, p.amount, p.odds)
        /\ UNCHANGED <<detailPanel, wagers, calls, resolvingWagerId, editingWager, isCreateModalOpen,
                       isSubmitting, formError>>

OtherSessionResolve ==
    \E id \in 1..Len(db), result \in Results :
        /\ db' = UpdateResult(db, id, result)
        /\ UNCHANGED <<detailPanel, wagers, calls, resolvingWagerId, editingWager, isCreateModalOpen,
                       isSubmitting, formError>>

Next ==
    \/ HandleReset
    \/ FetchWagersReturn
    \/ HandleCellClick
    \/ HandleCloseDetailPanel
    \/ HandleOpenCreateModal
    \/ HandleCloseCreateModal
    \/ HandleEditWager
    \/ HandleSubmit
    \/ HandleSubmitReturn
    \/ HandleStartResolve
    \/ HandleCancelResolve
    \/ HandleResolveWager
    \/ HandleResolveReturn
    \/ OtherSessionCreate
    \/ OtherSessionEdit
    \/ OtherSessionResolve

Spec == Init /\ [][Next]_vars

(***************************************************************************)
(* SpecLedger: one session whose handlers each run to completion, with     *)
(* every call succeeding, before the next one starts.  After each the      *)
(* in-memory collection is the fetched table.                              *)
(***************************************************************************)
LedgerInit ==
    /\ db = <<>>
    /\ wagers = <<>>
    /\ calls = EmptyBag
    /\ resolvingWagerId = 0
    /\ editingWager = NoWager
    /\ isCreateModalOpen = FALSE
    /\ isSubmitting = FALSE
    /\ formError = ""
    /\ selectedUserA = ""
    /\ selectedUserB = ""
    /\ isDetailPanelOpen = FALSE

\* handleSubmit of the create modal: insert, fetchWagers, close
SubmitCreate ==
    \E newWagers \in LedgerCreatePayloads :
        /\ Len(db) + Len(newWagers) <= MaxLedger
        /\ db' = InsertRows(db, newWagers)
        /\ wagers' = SelectAll(db')
        /\ UNCHANGED <<detailPanel, calls, resolvingWagerId, editingWager, isCreateModalOpen,
                       isSubmitting, formError>>

\* Edit on a listed open wager, then handleSubmit: update, fetchWagers, close
SubmitEdit ==
    \E i \in 1..Len(ListedWagers), p \in LedgerEditPayloads :
        /\ ShowsWagerActions(ListedWagers[i])
        /\ db' = UpdateFields(db, ListedWagers[i].id, p.description, p.amount, p.odds)
        /\ wagers' = SelectAll(db')
        /\ UNCHANGED <<detailPanel, calls, resolvingWagerId, editingWager, isCreateModalOpen,
                       isSubmitting, formError>>

\* Resolve on a listed open wager, then an outcome: update, fetchWagers
ResolveWager ==
    \E i \in 1..Len(ListedWagers), result \in Results :
        /\ ShowsWagerActions(ListedWagers[i])
        /\ db' = UpdateResult(db, ListedWagers[i].id, result)
        /\ wagers' = SelectAll(db')
        /\ UNCHANGED <<detailPanel, calls, resolvingWagerId, editingWager, isCreateModalOpen,
                       isSubmitting, formError>>

LedgerNext ==
    \/ HandleCellClick
    \/ HandleCloseDetailPanel
    \/ SubmitCreate
    \/ SubmitEdit
    \/ ResolveWager

SpecLedger == LedgerInit /\ [][LedgerNext]_vars

(***************************************************************************)
(* SpecHeat: the page is mounted on a table that earlier sessions filled   *)
(* with open wagers, at most one per grid cell, and fetches it.            *)
(***************************************************************************)
HeatAmounts == {10, 20, 30, 100}

\* the tables: every choice, per grid cell, of no wager or one open wager of
\* one of the amounts, inserted in the order of the cells
HeatTables ==
    {LET stocked == SelectSeq(UserPairs, LAMBDA c : pick[c] # 0)
     IN InsertRows(<<>>, [i \in 1..Len(stocked) |->
                             [from_user |-> stocked[i][1],
                              to_user |-> stocked[i][2],
                              amount |-> pick[stocked[i]],
                              odds |-> Hundred,
                              description |-> <<"b">>,
                              status |-> "open"]])
       : pick \in [Cells -> HeatAmounts \cup {0}]}

HeatInit ==
    /\ db \in HeatTables
    /\ wagers = <<>>
    /\ calls = EmptyBag
    /\ resolvingWagerId = 0
    /\ editingWager = NoWager
    /\ isCreateModalOpen = FALSE
    /\ isSubmitting = FALSE
    /\ formError = ""
    /\ selectedUserA = ""
    /\ selectedUserB = ""
    /\ isDetailPanelOpen = FALSE

\* the fetchWagers of the mount effect, run to completion
MountFetch ==
    /\ wagers = <<>>
    /\ db # <<>>
    /\ wagers' = SelectAll(db)
    /\ UNCHANGED <<detailPanel, db, calls, resolvingWagerId, editingWager,
                   isCreateModalOpen, isSubmitting, formError>>

HeatNext == MountFetch

SpecHeat == HeatInit /\ [][HeatNext]_vars

(***************************************************************************)
(* SpecBadge: the page of a roster of four is mounted on a table in which  *)
(* each user has placed no wager or one open wager, and fetches it.        *)
(***************************************************************************)
BadgeUsers == <<"A", "B", "C", "D">>

BadgeAmounts == {10, 25, 50, 75, 100}

\* the tables: every choice, per user, of no wager or one open wager of one
\* of the amounts against the next user of the roster
BadgeTables ==
    {LET placers == SelectSeq(BadgeUsers, LAMBDA u : pick[u] # 0)
         position(u) == CHOOSE i \in 1..Len(BadgeUsers) : BadgeUsers[i] = u
     IN InsertRows(<<>>, [i \in 1..Len(placers) |->
                             [from_user |-> placers[i],
                              to_user |-> BadgeUsers[(position(placers[i]) % Len(BadgeUsers)) + 1],
                              amount |-> pick[placers[i]],
                              odds |-> Hundred,
                              description |-> <<"b">>,
                              status |-> "open"]])
       : pick \in [{BadgeUsers[i] : i \in 1..Len(BadgeUsers)} -> BadgeAmounts \cup {0}]}

BadgeInit ==
    /\ db \in BadgeTables
    /\ wagers = <<>>
    /\ calls = EmptyBag
    /\ resolvingWagerId = 0
    /\ editingWager = NoWager
    /\ isCreateModalOpen = FALSE
    /\ isSubmitting = FALSE
    /\ formError = ""
    /\ selectedUserA = ""
    /\ selectedUserB = ""
    /\ isDetailPanelOpen = FALSE

BadgeNext == MountFetch

SpecBadge == BadgeInit /\ [][BadgeNext]_vars

(***************************************************************************)
(* SpecSolo: the session alone on a backend that answers every call: no    *)
(* request fails and no other session writes the table.  Responses still   *)
(* arrive in any order.                                                    *)
(***************************************************************************)
AllOk == \A c \in BagToSet(calls) : c.st = "ok"

SoloInit == Init /\ AllOk

SoloNext ==
    \/ HandleReset /\ AllOk'
    \/ FetchWagersReturn
    \/ HandleCellClick
    \/ HandleCloseDetailPanel
    \/ HandleOpenCreateModal
    \/ HandleCloseCreateModal
    \/ HandleEditWager
    \/ HandleSubmit /\ AllOk'
    \/ HandleSubmitReturn /\ AllOk'
    \/ HandleStartResolve
    \/ HandleCancelResolve
    \/ HandleResolveWager /\ AllOk'
    \/ HandleResolveReturn /\ AllOk'

SpecSolo == SoloInit /\ [][SoloNext]_vars

(***************************************************************************)
(* SpecActivity: the page is mounted on a table whose rows carry the two   *)
(* timestamps of the Wager interface, which no handler of the page writes  *)
(* and only deriveActivityItems reads, and fetches it.  Both timestamps    *)
(* are optional in the interface; 0 is a missing one.                      *)
(***************************************************************************)
\* what new Date() can read: later than every stored timestamp
Clock == {4, 5}

\* rows of every kind, for the tables of up to two wagers
ActivityRows ==
    [created_at : 0..2, updated_at : {0, 3}, status : {"open"}, result : {"none"}]
      \cup [created_at : 0..2, updated_at : {0, 2, 3}, status : {"resolved"},
            result : Results]

\* open and resolved rows that differ in their timestamps, for the tables of
\* five wagers
FeedRows ==
    [created_at : 1..2, updated_at : {0}, status : {"open"}, result : {"none"}]
      \cup [created_at : 1..2, updated_at : {0, 2, 3}, status : {"resolved"},
            result : {"from"}]

\* the table of the rows `kinds`: wager i is placed by the i-th user of the
\* roster, cyclically, against the next one
TimedTable(kinds) ==
    [i \in 1..Len(kinds) |->
        [id |-> i,
         from_user |-> USERS[((i - 1) % Len(USERS)) + 1],
         to_user |-> USERS[(i % Len(USERS)) + 1],
         amount |-> 100,
         odds |-> Hundred,
         description |-> <<"b">>,
         status |-> kinds[i].status,
         result |-> kinds[i].result,
         created_at |-> kinds[i].created_at,
         updated_at |-> kinds[i].updated_at]]

ActivityTables ==
    {TimedTable(kinds) : kinds \in [1..1 -> ActivityRows] \cup [1..2 -> ActivityRows]}
      \cup {TimedTable(kinds) : kinds \in [1..5 -> FeedRows]}

ActivityInit ==
    /\ db \in ActivityTables
    /\ wagers = <<>>
    /\ calls = EmptyBag
    /\ resolvingWagerId = 0
    /\ editingWager = NoWager
    /\ isCreateModalOpen = FALSE
    /\ isSubmitting = FALSE
    /\ formError = ""
    /\ selectedUserA = ""
    /\ selectedUserB = ""
    /\ isDetailPanelOpen = FALSE

ActivityNext == MountFetch

SpecActivity == ActivityInit /\ [][ActivityNext]_vars

(***************************************************************************)
(* Properties.  Money is in hundredths: 300 is written 30000.              *)
(***************************************************************************)
RECURSIVE SumOver(_, _)
SumOver(S, f) ==
    IF S = {} THEN 0
    ELSE LET x == CHOOSE y \in S : TRUE IN f[x] + SumOver(S \ {x}, f)

RemoveAt(ws, i) == SubSeq(ws, 1, i - 1) \o SubSeq(ws, i + 1, Len(ws))

OpenPlacedBy(ws, u) == {i \in 1..Len(ws) : ws[i].status = "open" /\ ws[i].from_user = u}

ResolvedInvolving(ws, u) ==
    {i \in 1..Len(ws) : ws[i].status = "resolved" /\ (ws[i].from_user = u \/ ws[i].to_user = u)}

\* the wager of the scenario A -> B, amount 100 at odds +odds
Scenario(odds, status, result) ==
    [id |-> 1, from_user |-> "A", to_user |-> "B", amount |-> 100, odds |-> odds,
     description |-> <<"b">>, status |-> status, result |-> result]

\* C1 as stated: the exposure of u is the sum over the open wagers u placed of
\* amount * (1 + odds/100), and nothing for the wagers u only takes.
C1_Original ==
    \A u \in Roster :
        calculateUserExposure(wagers, u)
          = SumOver(OpenPlacedBy(wagers, u),
                    [i \in 1..Len(wagers) |-> wagers[i].amount * (100 + wagers[i].odds)])

\* C1 amended: the exposure of u is the sum over the open wagers u placed of
\* amount * odds/100, and nothing for the wagers u only takes; a single open
\* wager A -> B of 100 at +200 gives exposure(A) = 200 and exposure(B) = 0.
C1_Exposure ==
    /\ \A u \in Roster :
        calculateUserExposure(wagers, u)
          = SumOver(OpenPlacedBy(wagers, u),
                    [i \in 1..Len(wagers) |-> wagers[i].amount * wagers[i].odds])
    /\ wagers = <<Scenario(200, "open", "none")>>
         => /\ calculateUserExposure(wagers, "A") = 20000
            /\ calculateUserExposure(wagers, "B") = 0

\* a user with two open placed wagers whose taker has placed none
C1_Witness ==
    \E u \in Roster, v \in Roster :
        /\ Cardinality(OpenPlacedBy(wagers, u)) = 2
        /\ OpenPlacedBy(wagers, v) = {}
        /\ \E i \in OpenPlacedBy(wagers, u) : wagers[i].to_user = v
        /\ calculateUserExposure(wagers, u) > 0

\* what C2 says one resolved wager adds to the returns of u
Contribution(w, u) ==
    IF w.result = "push" THEN 0
    ELSE IF w.from_user = u
         THEN (IF w.result = "from" THEN 100 * w.amount ELSE -(w.amount * w.odds))
         ELSE (IF w.result = "to" THEN w.amount * w.odds ELSE -(100 * w.amount))

\* C2: the returns of u are the sum over the resolved wagers involving u of 0
\* for a push, +amount / -p for the placer, +p / -amount for the taker, with
\* p = amount * odds/100; open wagers add nothing.
C2_Returns ==
    \A u \in Roster :
        calculateUserReturns(wagers, u)
          = SumOver(ResolvedInvolving(wagers, u),
                    [i \in 1..Len(wagers) |-> Contribution(wagers[i], u)])

\* a user who took a wager that "to" won, and who has an open wager placed
C2_Witness ==
    \E u \in Roster, i \in 1..Len(wagers), j \in 1..Len(wagers) :
        /\ wagers[i].status = "resolved" /\ wagers[i].result = "to"
        /\ wagers[i].to_user = u
        /\ wagers[j].status = "open" /\ wagers[j].from_user = u
        /\ calculateUserReturns(wagers, u) > 0

\* the collection is one wager, resolved with this result
SingleResolved(result) ==
    /\ Len(wagers) = 1
    /\ wagers[1].status = "resolved"
    /\ wagers[1].result = result

\* C3 as stated: after A -> B of 100 at +200 is created and resolved "to
\* wins", returns(A) = -300 and returns(B) = +300; on "to wins" the placer
\* loses and the taker gains amount * (1 + odds/100).
C3_Original ==
    /\ wagers = <<Scenario(200, "resolved", "to")>>
         => /\ calculateUserReturns(wagers, "A") = -30000
            /\ calculateUserReturns(wagers, "B") = 30000
    /\ SingleResolved("to")
         => LET w == wagers[1] IN
            /\ calculateUserReturns(wagers, w.from_user) = -(w.amount * (100 + w.odds))
            /\ calculateUserReturns(wagers, w.to_user) = w.amount * (100 + w.odds)

\* C3 amended: after A -> B of 100 at +200 is created and resolved "to wins",
\* returns(A) = -200 and returns(B) = +200; on "to wins" the placer loses and
\* the taker gains amount * odds/100.
C3_ToWins ==
    /\ wagers = <<Scenario(200, "resolved", "to")>>
         => /\ calculateUserReturns(wagers, "A") = -20000
            /\ calculateUserReturns(wagers, "B") = 20000
    /\ SingleResolved("to")
         => LET w == wagers[1] IN
            /\ calculateUserReturns(wagers, w.from_user) = -(w.amount * w.odds)
            /\ calculateUserReturns(wagers, w.to_user) = w.amount * w.odds

\* the scenario's wager, created and resolved "to wins"
C3_Witness == wagers = <<Scenario(200, "resolved", "to")>> /\ db = wagers

\* C4: the returns of all roster users sum to 0, and each resolved wager adds
\* to one party what it takes from the other.
C4_ZeroSum ==
    /\ SumOver(Roster, [u \in Roster |-> calculateUserReturns(wagers, u)]) = 0
    /\ \A i \in 1..Len(wagers) :
        wagers[i].status = "resolved"
          => calculateUserReturns(<<wagers[i]>>, wagers[i].from_user)
               + calculateUserReturns(<<wagers[i]>>, wagers[i].to_user) = 0

\* two resolved wagers, one won by its placer and one by its taker, between
\* three users
C4_Witness ==
    \E i \in 1..Len(wagers), j \in 1..Len(wagers) :
        /\ wagers[i].status = "resolved" /\ wagers[i].result = "from"
        /\ wagers[j].status = "resolved" /\ wagers[j].result = "to"
        /\ {wagers[i].from_user, wagers[i].to_user, wagers[j].from_user,
            wagers[j].to_user} = Roster
        /\ wagers[i].odds # wagers[j].odds

\* C5 as stated: for a single resolved wager that "from" won, the placer's
\* returns are +amount and the taker's are -amount * odds/100 (100 at +150:
\* +100 and -150).
C5_Original ==
    /\ wagers = <<Scenario(150, "resolved", "from")>>
         => /\ calculateUserReturns(wagers, "A") = 10000
            /\ calculateUserReturns(wagers, "B") = -15000
    /\ SingleResolved("from")
         => LET w == wagers[1] IN
            /\ calculateUserReturns(wagers, w.from_user) = 100 * w.amount
            /\ calculateUserReturns(wagers, w.to_user) = -(w.amount * w.odds)

\* C5 amended: for a single resolved wager that "from" won, the placer's
\* returns are +amount and the taker's are -amount (100 at +150: +100 and
\* -100).
C5_FromWins ==
    /\ wagers = <<Scenario(150, "resolved", "from")>>
         => /\ calculateUserReturns(wagers, "A") = 10000
            /\ calculateUserReturns(wagers, "B") = -10000
    /\ SingleResolved("from")
         => LET w == wagers[1] IN
            /\ calculateUserReturns(wagers, w.from_user) = 100 * w.amount
            /\ calculateUserReturns(wagers, w.to_user) = -(100 * w.amount)

\* the single wager A -> B of 100 at +150, resolved "from wins"
C5_Witness == wagers = <<Scenario(150, "resolved", "from")>>

\* C6: a resolved push adds 0 to the returns of both its parties, 1 to the
\* pushes of both and nothing to their wins or losses (the collection
\* compared with the collection without that wager).
C6_Push ==
    \A i \in 1..Len(wagers) :
        wagers[i].status = "resolved" /\ wagers[i].result = "push"
          => \A u \in {wagers[i].from_user, wagers[i].to_user} :
                LET rest == RemoveAt(wagers, i)
                    with == calculateUserRecord(wagers, u)
                    without == calculateUserRecord(rest, u)
                IN /\ calculateUserReturns(wagers, u) = calculateUserReturns(rest, u)
                   /\ with.pushes = without.pushes + 1
                   /\ with.wins = without.wins
                   /\ with.losses = without.losses

\* a push, beside a wager one of its parties won
C6_Witness ==
    \E i \in 1..Len(wagers), j \in 1..Len(wagers) :
        /\ wagers[i].status = "resolved" /\ wagers[i].result = "push"
        /\ wagers[j].status = "resolved" /\ wagers[j].result = "from"
        /\ wagers[j].from_user \in {wagers[i].from_user, wagers[i].to_user}

\* C7: wins + losses + pushes is the number of resolved wagers involving u; a
\* resolved wager that is no push is one win for its winner and one loss for
\* the other party; an open wager is not counted.
C7_Record ==
    /\ \A u \in Roster :
        LET r == calculateUserRecord(wagers, u)
        IN r.wins + r.losses + r.pushes = Cardinality(ResolvedInvolving(wagers, u))
    /\ \A i \in 1..Len(wagers) :
        LET w == wagers[i]
            rest == RemoveAt(wagers, i)
            winner == IF w.result = "from" THEN w.from_user ELSE w.to_user
            loser == IF w.result = "from" THEN w.to_user ELSE w.from_user
        IN /\ w.status = "resolved" /\ w.result \in {"from", "to"}
             => /\ calculateUserRecord(wagers, winner)
                  = [calculateUserRecord(rest, winner) EXCEPT !.wins = @ + 1]
                /\ calculateUserRecord(wagers, loser)
                  = [calculateUserRecord(rest, loser) EXCEPT !.losses = @ + 1]
           /\ w.status = "open"
             => \A u \in Roster :
                    calculateUserRecord(wagers, u) = calculateUserRecord(rest, u)

\* an open wager beside a resolved one that its taker won
C7_Witness ==
    \E i \in 1..Len(wagers), j \in 1..Len(wagers) :
        /\ wagers[i].status = "open"
        /\ wagers[j].status = "resolved" /\ wagers[j].result = "to"
        /\ calculateUserRecord(wagers, wagers[j].to_user).wins = 1
        /\ calculateUserRecord(wagers, wagers[j].from_user).losses = 1

\* C8: no step takes a persisted wager from resolved back to open.
C8_StatusOneWay ==
    [][\A i \in 1..Len(db) :
          db[i].status = "resolved" => i <= Len(db') /\ db'[i].status = "resolved"]_vars

\* the session fetched the wager resolved, and since then an edit changed
\* its odds in the table, where it is still resolved
C8_Witness ==
    \E i \in 1..Len(db), j \in 1..Len(wagers) :
        /\ wagers[j].id = db[i].id
        /\ wagers[j].status = "resolved"
        /\ wagers[j].odds # db[i].odds
        /\ db[i].status = "resolved"

\* C9 as stated: once a wager is resolved, no later resolve changes its
\* stored result.
C9_Original ==
    [][\A i \in 1..Len(db) :
          db[i].status = "resolved" => i <= Len(db') /\ db'[i].result = db[i].result]_vars

\* C10: a persisted wager has a result exactly when it is resolved.
C10_ResultIffResolved ==
    \A i \in 1..Len(db) :
        /\ db[i].status \in {"open", "resolved"}
        /\ db[i].status = "resolved" <=> db[i].result \in Results
        /\ db[i].status = "open" => db[i].result = "none"

\* the table holds a resolved wager that the session still shows open
C10_Witness ==
    \E i \in 1..Len(db), j \in 1..Len(wagers) :
        /\ wagers[j].id = db[i].id
        /\ wagers[j].status = "open" /\ wagers[j].result = "none"
        /\ db[i].status = "resolved" /\ db[i].result = "to"

\* C11 as stated: no step changes the amount, odds or description of a
\* persisted wager that is resolved; an edit submitted for a wager that has
\* meanwhile been resolved leaves them unchanged.
C11_Original ==
    [][\A i \in 1..Len(db) :
          db[i].status = "resolved"
            => /\ i <= Len(db')
               /\ db'[i].amount = db[i].amount
               /\ db'[i].odds = db[i].odds
               /\ db'[i].description = db[i].description]_vars

Range(s) == {s[i] : i \in 1..Len(s)}

\* the submissions C12 lists, for the create modal
Rejected(f) ==
    \/ f.from = ""
    \/ Range(f.to) \ {f.from} = {}
    \/ ParseNumber(f.amount).nan
    \/ ParseNumber(f.amount).v <= 0
    \/ ~ParseNumber(f.odds).nan /\ ParseNumber(f.odds).v = 0
    \/ Trim(f.description) = <<>>

\* and for the edit modal, whose parties are those of the wager
RejectedEdit(f) ==
    \/ ParseNumber(f.amount).nan
    \/ ParseNumber(f.amount).v <= 0
    \/ ~ParseNumber(f.odds).nan /\ ParseNumber(f.odds).v = 0
    \/ Trim(f.description) = <<>>

RejectedFormsFail ==
    /\ \A f \in LedgerForms : Rejected(f) => ~FormValid(f)
    /\ \A f \in LedgerForms : RejectedEdit(f) => ~EditValid(f)

PleaseFill == "Please fill in all fields"

\* C12: a submission with a missing from-user, no opponent other than the
\* from-user, a non-numeric, zero or negative amount, zero odds or a
\* description empty after trimming fails the condition of handleSubmit, and
\* the step of handleSubmit for a form that fails it sends no call, changes
\* neither the table nor the in-memory collection, and sets the form error.
C12_Rejects ==
    [][/\ RejectedFormsFail
       /\ (isCreateModalOpen /\ formError' = PleaseFill /\ formError' # formError)
            => /\ db' = db
               /\ calls' = calls
               /\ wagers' = wagers
               /\ isCreateModalOpen']_vars

\* an edit of a listed wager was rejected: the error shows in the open edit
\* modal, nothing is awaited and the wager is as it was fetched
C12_Witness ==
    /\ formError = PleaseFill
    /\ isCreateModalOpen
    /\ editingWager # NoWager
    /\ calls = EmptyBag
    /\ db # <<>>
    /\ wagers = SelectAll(db)

\* what C13 says of the rows of one valid form
OnePerOpponent ==
    \A f \in LedgerForms :
        FormValid(f)
          => LET rows == FormWagers(f)
                 opponents == Range(f.to) \ {f.from}
             IN /\ Len(rows) = Cardinality(opponents)
                /\ {rows[i].to_user : i \in 1..Len(rows)} = opponents
                /\ \A i \in 1..Len(rows) :
                      /\ rows[i].from_user = f.from
                      /\ rows[i].amount = ParseNumber(f.amount).v
                      /\ rows[i].odds = ParseNumber(f.odds).v
                      /\ rows[i].description = Trim(f.description)
                      /\ rows[i].status = "open"

\* C13: a valid create with from-user F and K opponents gives K rows, one per
\* opponent; a step that adds rows to the table adds the rows of one whole
\* form, leaves the rows already there as they were, and each new row has an
\* id of its own, status open, no result, fromUser = F, toUser # F and the
\* same amount, odds and trimmed description.
C13_Create ==
    [][/\ OnePerOpponent
       /\ Len(db') > Len(db)
            => LET new == (Len(db) + 1)..Len(db')
               IN /\ SubSeq(db', 1, Len(db)) = db
                  /\ \E p \in LedgerCreatePayloads : db' = InsertRows(db, p)
                  /\ \A i \in new :
                        /\ db'[i].status = "open"
                        /\ db'[i].result = "none"
                        /\ db'[i].to_user # db'[i].from_user
                        /\ db'[i].description = Trim(db'[i].description)
                        /\ \A j \in 1..Len(db') : j # i => db'[j].id # db'[i].id
                  /\ \A i \in new, j \in new :
                        /\ db'[i].from_user = db'[j].from_user
                        /\ db'[i].amount = db'[j].amount
                        /\ db'[i].odds = db'[j].odds
                        /\ db'[i].description = db'[j].description
                        /\ i # j => db'[i].to_user # db'[j].to_user]_vars

\* one form with two opponents was submitted on the empty table
C13_Witness ==
    /\ Len(db) = 2
    /\ db[1].from_user = db[2].from_user
    /\ db[1].to_user # db[2].to_user
    /\ db[1].amount = db[2].amount /\ db[1].odds = db[2].odds
    /\ db[1].description = db[2].description
    /\ db[1].status = "open" /\ db[2].status = "open"
    /\ wagers = SelectAll(db)

\* C14: the in-memory collection changes only when a fetch that succeeded
\* delivers its rows; the step that sends a create, edit or resolve and the
\* step that receives the failure of any call leave it as it was.
C14_NoOptimistic ==
    [][/\ wagers' # wagers
            => \E c \in BagToSet(calls) :
                  /\ c.op = "fetch" /\ c.st = "ok"
                  /\ wagers' = c.data
                  /\ calls' = Handled(c)
       /\ \A c \in BagToSet(calls) :
            c.st = "err" /\ calls' = Handled(c) => wagers' = wagers
       /\ db' # db => wagers' = wagers]_vars

\* an update failed, and the collection still holds what was fetched before
C14_Witness ==
    /\ formError = "Failed to update wager"
    /\ wagers # <<>>
    /\ wagers = SelectAll(db)
    /\ calls = EmptyBag

\* C15 as stated: the step that receives the failure of an insert, of an
\* update or of the update of a resolve leaves a message showing.
C15_Original ==
    [][\A c \in BagToSet(calls) :
          c.st = "err" /\ c.op \in {"insert", "update", "resolve"} /\ calls' = Handled(c)
            => formError' # ""]_vars

\* the open wagers from a to b
OpenFromTo(ws, a, b) ==
    {i \in 1..Len(ws) : ws[i].status = "open" /\ ws[i].from_user = a /\ ws[i].to_user = b}

\* C16: the cell of (from, to) has as amount the sum of the amounts, and as
\* count the number, of the open wagers from `from` to `to`; a wager that is
\* resolved or of another pair or direction adds nothing to it.
C16_Cell ==
    \A a \in Roster, b \in Roster :
        LET S == OpenFromTo(wagers, a, b)
        IN /\ getCellData(wagers, a, b)
                = [amount |-> SumOver(S, [i \in 1..Len(wagers) |-> wagers[i].amount]),
                   count |-> Cardinality(S)]
           /\ \A i \in (1..Len(wagers)) \ S :
                 getCellData(RemoveAt(wagers, i), a, b) = getCellData(wagers, a, b)
           /\ a # b => S \cap OpenFromTo(wagers, b, a) = {}

\* two open wagers of different amounts, one in each direction of a pair
C16_Witness ==
    \E i \in 1..Len(wagers), j \in 1..Len(wagers) :
        /\ wagers[i].status = "open" /\ wagers[j].status = "open"
        /\ wagers[i].from_user = wagers[j].to_user
        /\ wagers[i].to_user = wagers[j].from_user
        /\ wagers[i].amount # wagers[j].amount
        /\ getCellData(wagers, wagers[i].from_user, wagers[i].to_user).count = 1

\* the wagers of the pair {a, b}, in either direction
Between(ws, a, b) ==
    {i \in 1..Len(ws) : \/ ws[i].from_user = a /\ ws[i].to_user = b
                        \/ ws[i].from_user = b /\ ws[i].to_user = a}

\* C17: without the filter, getWagersBetweenUsers(A, B) is the wagers from A
\* to B and from B to A, open and resolved, and the same for (B, A); with
\* openOnly it is the open ones of them.
C17_Between ==
    \A a \in Roster, b \in Roster :
        LET all == getWagersBetweenUsers(wagers, a, b, FALSE)
            open == getWagersBetweenUsers(wagers, a, b, TRUE)
        IN /\ Range(all) = {wagers[i] : i \in Between(wagers, a, b)}
           /\ Len(all) = Cardinality(Between(wagers, a, b))
           /\ Range(all) = Range(getWagersBetweenUsers(wagers, b, a, FALSE))
           /\ Range(open) = {wagers[i] : i \in {j \in Between(wagers, a, b) :
                                                    wagers[j].status = "open"}}
           /\ Len(open) = Cardinality(Range(open))

\* a resolved wager and an open one, in the two directions of a pair
C17_Witness ==
    \E i \in 1..Len(wagers), j \in 1..Len(wagers) :
        /\ wagers[i].status = "resolved" /\ wagers[j].status = "open"
        /\ wagers[i].from_user = wagers[j].to_user
        /\ wagers[i].to_user = wagers[j].from_user
        /\ Len(getWagersBetweenUsers(wagers, wagers[i].from_user, wagers[i].to_user, FALSE)) = 2

\* C18 as stated: the panel opened for (A, B) lists the wagers between A and
\* B of both directions, resolved ones too.
C18_Original ==
    isDetailPanelOpen
      => /\ Range(ListedWagers)
              = {wagers[i] : i \in Between(wagers, selectedUserA, selectedUserB)}
         /\ Len(ListedWagers) = Cardinality(Between(wagers, selectedUserA, selectedUserB))

\* the wagers from a to b, open and resolved
FromTo(ws, a, b) == {i \in 1..Len(ws) : ws[i].from_user = a /\ ws[i].to_user = b}

\* C18 amended: the panel opened for (A, B) lists exactly the wagers from A
\* to B, resolved ones too; the wagers from B to A are not listed in it.
C18_Directional ==
    isDetailPanelOpen
      => /\ Range(ListedWagers)
              = {wagers[i] : i \in FromTo(wagers, selectedUserA, selectedUserB)}
         /\ Len(ListedWagers) = Cardinality(FromTo(wagers, selectedUserA, selectedUserB))

\* the panel is open for a pair that has a resolved wager in its direction
\* and a wager in the reverse direction
C18_Witness ==
    /\ isDetailPanelOpen
    /\ \E i \in 1..Len(wagers), j \in 1..Len(wagers) :
          /\ wagers[i].from_user = selectedUserA /\ wagers[i].to_user = selectedUserB
          /\ wagers[i].status = "resolved"
          /\ wagers[j].from_user = selectedUserB /\ wagers[j].to_user = selectedUserA
    /\ Len(ListedWagers) = 1

\* the nonzero amounts of the off-diagonal cells
NonzeroCells(ws) == {c \in Cells : getCellData(ws, c[1], c[2]).amount > 0}

\* v is the value at index k (from 0) of the nonzero cell amounts sorted
\* ascending
IsValueAt(ws, v, k) ==
    /\ \E c \in NonzeroCells(ws) : getCellData(ws, c[1], c[2]).amount = v
    /\ Cardinality({c \in NonzeroCells(ws) : getCellData(ws, c[1], c[2]).amount < v}) <= k
    /\ Cardinality({c \in NonzeroCells(ws) : getCellData(ws, c[1], c[2]).amount <= v}) > k

\* the number of cells whose amount is v
CellsOf(ws, v) == Cardinality({c \in Cells : getCellData(ws, c[1], c[2]).amount = v})

\* the cell amounts are 10, 10, 20, 30, 100 and one empty cell
FiveAmounts(ws) ==
    /\ CellsOf(ws, 10) = 2
    /\ CellsOf(ws, 20) = 1
    /\ CellsOf(ws, 30) = 1
    /\ CellsOf(ws, 100) = 1
    /\ CellsOf(ws, 0) = 1

\* C19: with n nonzero cell amounts, low is the value at index n \div 3 and
\* medium the value at index 2n \div 3 of the amounts sorted ascending; for
\* 10, 10, 20, 30, 100 low = 10 and medium = 30; with no nonzero cell both
\* are 0.
C19_Thresholds ==
    LET n == Cardinality(NonzeroCells(wagers))
        t == heatmapThresholds(wagers)
    IN /\ n = 0 => t = [low |-> 0, medium |-> 0]
       /\ n > 0 => /\ IsValueAt(wagers, t.low, n \div 3)
                   /\ IsValueAt(wagers, t.medium, (2 * n) \div 3)
       /\ FiveAmounts(wagers) => t = [low |-> 10, medium |-> 30]

\* the fetched collection has the cell amounts 10, 10, 20, 30, 100
C19_Witness == FiveAmounts(wagers) /\ wagers = SelectAll(db)

\* C20: with the thresholds of the collection, a cell is classified none
\* exactly when its amount is 0, low when 0 < amount <= low, medium when
\* low < amount <= medium and high when amount > medium.
C20_Buckets ==
    LET t == heatmapThresholds(wagers)
    IN \A c \in Cells :
          LET amount == getCellData(wagers, c[1], c[2]).amount
              class == getCellHeatmapClass(amount, t)
          IN /\ class \in {"", "heat-low", "heat-medium", "heat-high"}
             /\ class = "" <=> amount = 0
             /\ class = "heat-low" <=> 0 < amount /\ amount <= t.low
             /\ class = "heat-medium" <=> t.low < amount /\ amount <= t.medium
             /\ class = "heat-high" <=> amount > t.medium /\ amount > 0

\* a grid with a cell of each class, one of them exactly at the medium
\* threshold
C20_Witness ==
    LET t == heatmapThresholds(wagers)
        classOf(c) == getCellHeatmapClass(getCellData(wagers, c[1], c[2]).amount, t)
    IN /\ {classOf(c) : c \in Cells} = {"", "heat-low", "heat-medium", "heat-high"}
       /\ \E c \in Cells : getCellData(wagers, c[1], c[2]).amount = t.medium
       /\ t.low < t.medium

\* C21 as stated: with the thresholds of the cell amounts 10, 10, 20, 30, 100,
\* 15 is in the low bucket, 30 in the medium bucket, 100 in the high bucket
\* and 0 in none.
C21_Original ==
    FiveAmounts(wagers)
      => LET t == heatmapThresholds(wagers)
         IN /\ getCellHeatmapClass(15, t) = "heat-low"
            /\ getCellHeatmapClass(30, t) = "heat-medium"
            /\ getCellHeatmapClass(100, t) = "heat-high"
            /\ getCellHeatmapClass(0, t) = ""

\* C21 amended: with the thresholds of the cell amounts 10, 10, 20, 30, 100
\* (low = 10, medium = 30), 10 is in the low bucket, 15 and 30 in the medium
\* bucket, 100 in the high bucket and 0 in none.
C21_Example ==
    FiveAmounts(wagers)
      => LET t == heatmapThresholds(wagers)
         IN /\ getCellHeatmapClass(10, t) = "heat-low"
            /\ getCellHeatmapClass(15, t) = "heat-medium"
            /\ getCellHeatmapClass(30, t) = "heat-medium"
            /\ getCellHeatmapClass(100, t) = "heat-high"
            /\ getCellHeatmapClass(0, t) = ""

\* the fetched grid has the amounts 10, 10, 20, 30, 100, the largest of them
\* in the cell of (A, B)
C21_Witness ==
    /\ FiveAmounts(wagers)
    /\ getCellData(wagers, "A", "B").amount = 100
    /\ heatmapThresholds(wagers) = [low |-> 10, medium |-> 30]

BadgeRoster == {BadgeUsers[i] : i \in 1..Len(BadgeUsers)}

\* the largest exposure of any user of the roster
LargestExposure(ws) ==
    CHOOSE m \in {calculateUserExposure(ws, u) : u \in BadgeRoster} :
        \A u \in BadgeRoster : calculateUserExposure(ws, u) <= m

\* C22: the tier of a user is 0 if the largest exposure of the roster or the
\* user's exposure is 0, and otherwise 0, 1, 2 or 3 as exposure/maxExposure
\* is below 1/4, in [1/4, 1/2), in [1/2, 3/4) or at least 3/4; maxExposure is
\* the largest exposure of any roster user.
C22_Tier ==
    LET max == LargestExposure(wagers)
    IN /\ maxExposure(BadgeUsers, wagers) = max
       /\ \A u \in BadgeRoster :
            LET e == calculateUserExposure(wagers, u)
                tier == getExposureTier(e, maxExposure(BadgeUsers, wagers))
            IN /\ tier \in 0..3
               /\ (max = 0 \/ e = 0) => tier = 0
               /\ (max > 0 /\ e > 0)
                    => /\ tier = 0 <=> 4 * e < max
                       /\ tier = 1 <=> 4 * e >= max /\ 2 * e < max
                       /\ tier = 2 <=> 2 * e >= max /\ 4 * e < 3 * max
                       /\ tier = 3 <=> 4 * e >= 3 * max
               /\ getUserExposureTintClass(BadgeUsers, wagers, u) = "" <=> tier = 0

\* the four users have nonzero exposures of the four tiers, one of them
\* exactly a quarter of the largest
C22_Witness ==
    /\ {getExposureTier(calculateUserExposure(wagers, u), maxExposure(BadgeUsers, wagers))
          : u \in BadgeRoster} = 0..3
    /\ \A u \in BadgeRoster : calculateUserExposure(wagers, u) > 0
    /\ \E u \in BadgeRoster :
          4 * calculateUserExposure(wagers, u) = maxExposure(BadgeUsers, wagers)

\* the place of u in the roster
RosterIndex(u) == CHOOSE i \in 1..Len(BadgeUsers) : BadgeUsers[i] = u

\* the rank of u by exposure descending, ties in roster order
Rank(ws, u) ==
    1 + Cardinality({v \in BadgeRoster :
            \/ calculateUserExposure(ws, v) > calculateUserExposure(ws, u)
            \/ /\ calculateUserExposure(ws, v) = calculateUserExposure(ws, u)
               /\ RosterIndex(v) < RosterIndex(u)})

\* C23: the user ranked first has the crown exactly when the largest exposure
\* is above 0; the users ranked second and third have the warning exactly
\* when their exposure is above 0; nobody else has a marker, and a user with
\* exposure 0 has none.  So at most one user has the crown and at most two
\* have the warning.
C23_Badges ==
    LET badge(u) == getUserBadge(BadgeUsers, wagers, u)
    IN /\ \A u \in BadgeRoster :
            LET e == calculateUserExposure(wagers, u)
            IN /\ badge(u) = "crown" <=> Rank(wagers, u) = 1 /\ LargestExposure(wagers) > 0
               /\ badge(u) = "warning" <=> Rank(wagers, u) \in {2, 3} /\ e > 0
               /\ e = 0 => badge(u) = ""
               /\ badge(u) \in {"crown", "warning", ""}
       /\ Cardinality({u \in BadgeRoster : badge(u) = "crown"}) <= 1
       /\ Cardinality({u \in BadgeRoster : badge(u) = "warning"}) <= 2

\* all four users have exposure, two of them tie for the largest: one crown,
\* two warnings and one user without a marker
C23_Witness ==
    LET badge(u) == getUserBadge(BadgeUsers, wagers, u)
    IN /\ \A u \in BadgeRoster : calculateUserExposure(wagers, u) > 0
       /\ Cardinality({u \in BadgeRoster :
              calculateUserExposure(wagers, u) = LargestExposure(wagers)}) = 2
       /\ Cardinality({u \in BadgeRoster : badge(u) = "crown"}) = 1
       /\ Cardinality({u \in BadgeRoster : badge(u) = "warning"}) = 2
       /\ Cardinality({u \in BadgeRoster : badge(u) = ""}) = 1

\* the events of a collection, as C25 describes them: a created event per
\* wager that has a createdAt, a resolved event per resolved wager
EventsOf(ws, now) ==
    {[id |-> <<ws[i].id, "created">>, type |-> "created", user |-> ws[i].from_user,
      opponent |-> ws[i].to_user, result |-> "none", timestamp |-> ws[i].created_at,
      description |-> ws[i].description] : i \in {j \in 1..Len(ws) : ws[j].created_at # 0}}
    \cup
    {[id |-> <<ws[i].id, "resolved">>, type |-> "resolved", user |-> ws[i].from_user,
      opponent |-> ws[i].to_user,
      result |-> CASE ws[i].result = "from" -> "win"
                   [] ws[i].result = "to" -> "loss"
                   [] ws[i].result = "push" -> "push",
      timestamp |-> IF ws[i].updated_at # 0 THEN ws[i].updated_at
                    ELSE IF ws[i].created_at # 0 THEN ws[i].created_at ELSE now,
      description |-> ws[i].description] : i \in {j \in 1..Len(ws) : ws[j].status = "resolved"}}

\* C24: deriveActivityItems returns at most 8 events, all of them events of
\* the collection and none twice, in non-increasing order of timestamp, and
\* no event it leaves out is later than one it returns.
C24_Feed ==
    \A now \in Clock :
        LET items == deriveActivityItems(wagers, now)
            all == EventsOf(wagers, now)
        IN /\ Len(items) <= 8
           /\ Len(items) = (IF Cardinality(all) < 8 THEN Cardinality(all) ELSE 8)
           /\ Range(items) \subseteq all
           /\ Cardinality(Range(items)) = Len(items)
           /\ \A i \in 1..Len(items), j \in 1..Len(items) :
                 i < j => items[i].timestamp >= items[j].timestamp
           /\ \A e \in all \ Range(items), f \in Range(items) : e.timestamp <= f.timestamp

\* five resolved wagers: ten events, of which the two left out are created
\* events earlier than a resolved event that is returned
C24_Witness ==
    /\ Len(wagers) = 5
    /\ Cardinality(EventsOf(wagers, 4)) = 10
    /\ Len(deriveActivityItems(wagers, 4)) = 8
    /\ \E e \in EventsOf(wagers, 4) \ Range(deriveActivityItems(wagers, 4)) :
          /\ e.type = "created"
          /\ \E f \in Range(deriveActivityItems(wagers, 4)) :
                f.type = "resolved" /\ f.timestamp > e.timestamp

\* the number of events of this type that activities holds for wager w
EventCount(activities, w, type) ==
    Cardinality({k \in 1..Len(activities) : activities[k].id = <<w.id, type>>})

Undated(ws) ==
    \E i \in 1..Len(ws) :
        ws[i].status = "resolved" /\ ws[i].updated_at = 0 /\ ws[i].created_at = 0

\* C26 as stated: the activity feed is a function of the collection alone:
\* two calls on the same collection give the same result whatever the clock
\* reads.
C26_Original ==
    \A n1 \in Clock, n2 \in Clock :
        deriveActivityItems(wagers, n1) = deriveActivityItems(wagers, n2)

\* C26 amended: two calls on the same collection give the same activity feed
\* whatever the clock reads, provided every resolved wager has an updatedAt
\* or a createdAt; the resolved event of a wager that has neither carries the
\* time of the call, so that two calls at different times differ.
C26_Deterministic ==
    \A n1 \in Clock, n2 \in Clock :
        /\ ~Undated(wagers)
             => deriveActivityItems(wagers, n1) = deriveActivityItems(wagers, n2)
        /\ (Undated(wagers) /\ n1 # n2)
             => /\ deriveActivityItems(wagers, n1) # deriveActivityItems(wagers, n2)
                /\ \E k \in 1..Len(deriveActivityItems(wagers, n1)) :
                      deriveActivityItems(wagers, n1)[k].timestamp = n1

\* a resolved wager without timestamps beside a resolved wager that has both
C26_Witness ==
    /\ Undated(wagers)
    /\ \E i \in 1..Len(wagers) :
          wagers[i].status = "resolved" /\ wagers[i].updated_at # 0 /\ wagers[i].created_at # 0

\* what a resolved wager w adds to the returns of u in the signed variant
SignedContribution(w, u) ==
    IF w.result = "push" THEN 0
    ELSE IF w.from_user = u
         THEN (IF w.result = "from" THEN w.amount * w.odds ELSE -(100 * w.amount))
         ELSE (IF w.result = "to" THEN 100 * w.amount ELSE -(w.amount * w.odds))

\* C27 as stated: on a collection whose odds are all positive the signed
\* variant and the positive-only variant compute the same exposure and the
\* same returns for every user.
C27_Original ==
    (\A i \in 1..Len(wagers) : wagers[i].odds > 0)
      => \A u \in Roster :
            /\ calculateUserExposure_Signed(wagers, u) = calculateUserExposure(wagers, u)
            /\ calculateUserReturns_Signed(wagers, u) = calculateUserReturns(wagers, u)

\* C27 amended: on a collection whose odds are all positive the signed
\* exposure of a user is the positive-only exposure plus the stakes of the
\* user's open placed wagers; the signed returns move amount x odds/100 when
\* "from" wins and amount when "to" wins, where the positive-only returns move
\* amount when "from" wins and amount x odds/100 when "to" wins; the two
\* returns agree when every resolved wager of the user is a push.
C27_Variants ==
    (\A i \in 1..Len(wagers) : wagers[i].odds > 0)
      => \A u \in Roster :
            /\ calculateUserExposure_Signed(wagers, u)
                 = calculateUserExposure(wagers, u)
                     + SumOver(OpenPlacedBy(wagers, u),
                               [i \in 1..Len(wagers) |-> 100 * wagers[i].amount])
            /\ calculateUserReturns_Signed(wagers, u)
                 = SumOver(ResolvedInvolving(wagers, u),
                           [i \in 1..Len(wagers) |-> SignedContribution(wagers[i], u)])
            /\ calculateUserReturns(wagers, u)
                 = SumOver(ResolvedInvolving(wagers, u),
                           [i \in 1..Len(wagers) |-> Contribution(wagers[i], u)])
            /\ (\A i \in ResolvedInvolving(wagers, u) : wagers[i].result = "push")
                 => calculateUserReturns_Signed(wagers, u) = calculateUserReturns(wagers, u)

\* an open wager beside a wager that "from" won, on which the two variants
\* differ in the exposure of the one placer and in the returns of the other
C27_Witness ==
    /\ Len(wagers) = 2
    /\ \E i \in 1..2, j \in 1..2 :
          /\ wagers[i].status = "open"
          /\ wagers[j].status = "resolved" /\ wagers[j].result = "from"
          /\ calculateUserExposure_Signed(wagers, wagers[i].from_user)
               > calculateUserExposure(wagers, wagers[i].from_user)
          /\ calculateUserReturns_Signed(wagers, wagers[j].from_user)
               # calculateUserReturns(wagers, wagers[j].from_user)

\* C28 as stated: once every fetch in flight has completed, all of them
\* successfully, the in-memory collection equals the persisted one: a stale
\* response never overwrites a newer one.
C28_Original == calls = EmptyBag => wagers = SelectAll(db)

\* C29: a step that resolves an open wager w takes amount x odds/100 of w
\* off the exposure of its placer and the amount of w and one wager off the
\* cell from its placer to its taker, and leaves the exposure of every other
\* user, every other cell and the id, placer, taker, amount, odds and
\* description of every wager as they were.
C29_Resolve ==
    [][\A i \in 1..Len(wagers) :
          (Len(wagers') = Len(wagers) /\ wagers[i].status = "open"
             /\ wagers'[i].status = "resolved")
            => LET w == wagers[i]
               IN /\ calculateUserExposure(wagers', w.from_user)
                       = calculateUserExposure(wagers, w.from_user) - w.amount * w.odds
                  /\ getCellData(wagers', w.from_user, w.to_user)
                       = [amount |-> getCellData(wagers, w.from_user, w.to_user).amount
                                       - w.amount,
                          count |-> getCellData(wagers, w.from_user, w.to_user).count - 1]
                  /\ \A u \in Roster \ {w.from_user} :
                        calculateUserExposure(wagers', u) = calculateUserExposure(wagers, u)
                  /\ \A c \in Cells \ {<<w.from_user, w.to_user>>} :
                        getCellData(wagers', c[1], c[2]) = getCellData(wagers, c[1], c[2])
                  /\ \A j \in 1..Len(wagers) :
                        /\ wagers'[j].id = wagers[j].id
                        /\ wagers'[j].from_user = wagers[j].from_user
                        /\ wagers'[j].to_user = wagers[j].to_user
                        /\ wagers'[j].amount = wagers[j].amount
                        /\ wagers'[j].odds = wagers[j].odds
                        /\ wagers'[j].description = wagers[j].description]_vars

\* one of two wagers of the same cell has been resolved: the cell holds the
\* other one alone, and the exposure of the placer is that of the other one
C29_Witness ==
    /\ Len(wagers) = 2
    /\ \E i \in 1..2, j \in 1..2 :
          /\ wagers[i].status = "resolved" /\ wagers[j].status = "open"
          /\ wagers[i].from_user = wagers[j].from_user
          /\ wagers[i].to_user = wagers[j].to_user
          /\ wagers[i].amount # wagers[j].amount
          /\ getCellData(wagers, wagers[j].from_user, wagers[j].to_user)
               = [amount |-> wagers[j].amount, count |-> 1]
          /\ calculateUserExposure(wagers, wagers[j].from_user)
               = wagers[j].amount * wagers[j].odds

\* the buckets in rising order
BucketRank(class) ==
    CASE class = "" -> 0
      [] class = "heat-low" -> 1
      [] class = "heat-medium" -> 2
      [] class = "heat-high" -> 3

\* C30: the thresholds satisfy 0 <= low <= medium, and low > 0 when some
\* cell is nonzero; a cell with a larger amount is never in a lower bucket;
\* a nonzero cell that no nonzero cell is below is in the low bucket.
C30_Monotone ==
    LET t == heatmapThresholds(wagers)
        amountOf(c) == getCellData(wagers, c[1], c[2]).amount
        classOf(c) == getCellHeatmapClass(amountOf(c), t)
    IN /\ 0 <= t.low /\ t.low <= t.medium
       /\ NonzeroCells(wagers) # {} => t.low > 0
       /\ \A c \in Cells, d \in Cells :
             amountOf(c) <= amountOf(d) => BucketRank(classOf(c)) <= BucketRank(classOf(d))
       /\ \A c \in NonzeroCells(wagers) :
             (\A d \in NonzeroCells(wagers) : amountOf(c) <= amountOf(d))
               => classOf(c) = "heat-low"

\* the cells hold 100, 30, 20 and 10 in the order of the roster, the reverse
\* of the sorted order, beside empty cells: the thresholds are 20 and 30
C30_Witness ==
    /\ getCellData(wagers, "A", "B").amount = 100
    /\ getCellData(wagers, "A", "C").amount = 30
    /\ getCellData(wagers, "B", "A").amount = 20
    /\ getCellData(wagers, "B", "C").amount = 10
    /\ Cardinality(NonzeroCells(wagers)) = 4
    /\ heatmapThresholds(wagers) = [low |-> 20, medium |-> 30]
    /\ getCellHeatmapClass(10, heatmapThresholds(wagers)) = "heat-low"
    /\ getCellHeatmapClass(100, heatmapThresholds(wagers)) = "heat-high"

====
